---- MODULE Spec2Model ----
(***************************************************************************)
(* A model of ocean_sunset_rust (src/src/main.rs): the palette table and   *)
(* colour lookup, the background shader, the DDA line rasterizer, the grid *)
(* generator, the frame builder with its scanline pass, and the threaded   *)
(* batch driver.                                                           *)
(*                                                                         *)
(* Numbers.  TLC has integers only, so every f64 of the program is kept as *)
(* an exact rational (numerator over a positive denominator) and rounded   *)
(* or truncated where the program rounds or truncates.  Where the f64      *)
(* result is known to differ from the exact rational one, the definition   *)
(* says so and follows the f64 result.                                     *)
(***************************************************************************)
EXTENDS Integers, Sequences, FiniteSets, TLC

VARIABLES
    (* palette(primary, value) called on its own *)
    primary, value, color, palette_pc,
    (* the build: what `f64 as u32` gives for a negative value *)
    cast_mode,
    (* make_line(lines, start, end): its arguments as passed, the two      *)
    (* &mut endpoints, its locals, its loop counter k, the values          *)
    (* (x_k.round(), y_k.round()) before the cast, and the Vec             *)
    arg_start, arg_end, start, end, steps, x_k, y_k, k, rounded, lines,
    make_line_pc,
    (* make_lines(lines, v_offset): the loop variable of its two loops,    *)
    (* steps_without_line, and the make_line calls it has made, each as    *)
    (* <<start, end>>; earlier: the canvas rows of the horizontal lines of *)
    (* the call one animation period before                                *)
    v_offset, vert_i, scan_i, steps_without_line, calls, earlier,
    make_lines_pc,
    (* build_img, lines 227-234: the pixel written for the last point of   *)
    (* the Vec, or <<>> when the point was dropped                         *)
    written, lines_pc,
    (* build_img, lines 221-224: the pixel the background loop is at *)
    bg_x, bg_y, bg_pixel, background_pc,
    (* build_img, lines 237-245: the pixel the scanline loop is at, before *)
    (* and after the loop body                                             *)
    scan_x, scan_y, before, after, scanline_pc,
    (* main: the spawn loop, the handles, the join loop, the threads and   *)
    (* the files of out/                                                   *)
    main_pc, spawn_i, handles, join_i, thread, files, reported

paletteVars == <<primary, value, color, palette_pc>>

make_lineVars ==
    <<cast_mode, arg_start, arg_end, start, end, steps, x_k, y_k, k, rounded,
      lines, make_line_pc>>

make_linesVars ==
    <<v_offset, vert_i, scan_i, steps_without_line, calls, earlier,
      make_lines_pc>>

linesVars == <<written, lines_pc>>

backgroundVars == <<bg_x, bg_y, bg_pixel, background_pc>>

scanlineVars == <<scan_x, scan_y, before, after, scanline_pc>>

mainVars == <<main_pc, spawn_i, handles, join_i, thread, files, reported>>

vars ==
    <<paletteVars, make_lineVars, make_linesVars, linesVars, backgroundVars,
      scanlineVars, mainVars>>

----------------------------------------------------------------------------
(* Each specification below runs one part of the program; the variables of *)
(* the other parts then rest at these values.                              *)

PaletteIdle ==
    /\ primary = "Red"
    /\ value = 0
    /\ color = <<0, 0, 0>>
    /\ palette_pc = "idle"

MakeLineIdle ==
    /\ cast_mode = "saturate"
    /\ arg_start = <<0, 0>>
    /\ arg_end = <<0, 0>>
    /\ start = <<0, 0>>
    /\ end = <<0, 0>>
    /\ steps = 0
    /\ x_k = 0
    /\ y_k = 0
    /\ k = 0
    /\ rounded = <<>>
    /\ lines = <<>>
    /\ make_line_pc = "idle"

MakeLinesIdle ==
    /\ v_offset = 0
    /\ vert_i = 0
    /\ scan_i = 0
    /\ steps_without_line = 0
    /\ calls = <<>>
    /\ earlier = {}
    /\ make_lines_pc = "idle"

LinesIdle ==
    /\ written = <<>>
    /\ lines_pc = "idle"

BackgroundIdle ==
    /\ bg_x = 0
    /\ bg_y = 0
    /\ bg_pixel = <<0, 0, 0>>
    /\ background_pc = "idle"

ScanlineIdle ==
    /\ scan_x = 0
    /\ scan_y = 0
    /\ before = <<0, 0, 0>>
    /\ after = <<0, 0, 0>>
    /\ scanline_pc = "idle"

MainIdle ==
    /\ main_pc = "idle"
    /\ spawn_i = 0
    /\ handles = <<>>
    /\ join_i = 0
    /\ thread = <<>>
    /\ files = {}
    /\ reported = FALSE

----------------------------------------------------------------------------
(* Program constants, main.rs lines 57-78.                                 *)

WIDTH == 640
HEIGHT == 480
SUN_POSITION_Y == 220
N_VERT_LINES == 80
LINES_TOP == 240
LINES_MAX_DISTANCE == 50
LINES_MIN_DISTANCE == 10
(* MINIMUM_SPEED = 0.2 = MINIMUM_SPEED_NUM / MINIMUM_SPEED_DEN *)
MINIMUM_SPEED_NUM == 1
MINIMUM_SPEED_DEN == 5
SUN_REFLECTION_A == 100
SUN_REFLECTION_B == 350

----------------------------------------------------------------------------
(* Arithmetic helpers for the f64 operations the program uses.             *)

Abs(n) == IF n < 0 THEN -n ELSE n

Max(a, b) == IF a > b THEN a ELSE b

(* `x as u8` / `x as u32` / `x as i32` of a non-negative f64 num/den:      *)
(* truncation toward zero.  den > 0.                                       *)
Trunc(num, den) == IF num >= 0 THEN num \div den ELSE -((-num) \div den)

(* f64::round of the exact value num/den: to the nearest integer, halves   *)
(* away from zero.  den > 0.                                               *)
Round(num, den) ==
    IF num >= 0 THEN (2 * num + den) \div (2 * den)
                ELSE -((2 * (-num) + den) \div (2 * den))

----------------------------------------------------------------------------
(* The palette, main.rs lines 10-54 and 80-95.                             *)

(* enum Color *)
Color == {"Blue", "Cyan", "Red"}

(* `color.apply(|v| (v as f64 * f) as u8)` with f = num/den: v * f is      *)
(* exact in f64 for v <= 255 and f in {0.75, 0.5, 0.25}; `as u8` truncates.*)
Darken(rgb, num, den) == [c \in 1..3 |-> Trunc(rgb[c] * num, den)]

base_colors ==
    [h \in Color |->
        CASE h = "Blue" -> <<47, 24, 200>>
          [] h = "Cyan" -> <<0, 200, 190>>
          [] h = "Red"  -> <<200, 0, 123>>]

(* PALETTE[h] is the row of 5 colours of hue h; TLA+ sequences start at 1, *)
(* so the Rust index r is PALETTE[h][r + 1].                               *)
PALETTE ==
    [h \in Color |->
        << base_colors[h],
           Darken(base_colors[h], 3, 4),
           Darken(base_colors[h], 1, 2),
           Darken(base_colors[h], 1, 4),
           <<0, 0, 0>> >>]

(* An intensity (`value: f64`) is kept in units of 1/IntensityUnit.  A real*)
(* c stands as ceil(IntensityUnit * c): the palette index changes exactly  *)
(* at c = 1/8, 3/8, 5/8, 7/8, which are whole units, so the index of the   *)
(* unit value is the index of c.                                           *)
IntensityUnit == 1000

(* What a call that panics leaves behind instead of a colour.              *)
PANIC == <<>>

(* `((1.0 - value) * 4.0).round() as usize`, line 94 *)
PaletteIndex(v) == Round((IntensityUnit - v) * 4, IntensityUnit)

(* A palette() that clamps the intensity instead of panicking.             *)
palette_clamping(p, v) ==
    PALETTE[p][PaletteIndex(IF v > IntensityUnit THEN IntensityUnit
                            ELSE IF v < 0 THEN 0 ELSE v) + 1]

(* fn palette(primary: Color, value: f64) -> Rgb<u8>, lines 87-95 *)
palette(p, v) ==
    IF v > IntensityUnit \/ v < 0
        THEN PANIC
        ELSE PALETTE[p][PaletteIndex(v) + 1]

----------------------------------------------------------------------------
(* u32 values.  TLC's integers stop at 2^31 - 1, so a u32 is kept as its   *)
(* two 16-bit halves <<high, low>>.                                        *)

Half == 65536

U32(n) == <<n \div Half, n % Half>>

(* `n as u32` for the f64 n = x.round().  A value in range converts        *)
(* exactly.  A negative value saturates to 0 in a build by rustc 1.45 or   *)
(* later; before that the cast is undefined behaviour, and the x86-64 code *)
(* of those builds keeps the low 32 bits of the 64-bit conversion          *)
(* (2^32 + n).                                                             *)
AsU32(n, mode) ==
    IF n >= 0 THEN U32(n)
    ELSE IF mode = "saturate" THEN U32(0)
    ELSE <<(Half - 1) - ((-n - 1) \div Half), (Half - 1) - ((-n - 1) % Half)>>

CastModes == {"saturate", "wrap"}

(* `u < n` for a u32 u and 0 <= n < 2^16 *)
U32Less(u, n) == u[1] = 0 /\ u[2] < n

----------------------------------------------------------------------------
(* The rasterizer, main.rs lines 136-166.                                  *)

RECURSIVE Gcd(_, _)
Gcd(a, b) == IF b = 0 THEN a ELSE Gcd(b, a % b)

RECURSIVE IsPowerOfTwo(_)
IsPowerOfTwo(n) == n = 1 \/ (n > 1 /\ n % 2 = 0 /\ IsPowerOfTwo(n \div 2))

(* `m < 0.0` for m = (end.1 - start.1) / (end.0 - start.0) in f64: a       *)
(* negative quotient, or -infinity when dx = 0 > dy.  0/0 is NaN and       *)
(* 0/negative is -0.0; neither is < 0.0.                                   *)
SlopeNegative(s, e) ==
    LET dx == e[1] - s[1]
        dy == e[2] - s[2]
    IN  IF dx = 0 THEN dy < 0 ELSE dx * dy < 0

(* A make_line() that never swaps its endpoints.                           *)
SwapNever(s, e) == FALSE

(* lines 139-143 *)
SwapNeeded(s, e) == SlopeNegative(s, e) /\ s[1] < e[1]

(* `steps`, lines 148-152 *)
Steps(dx, dy) == IF Abs(dx) > Abs(dy) THEN Abs(dx) ELSE Abs(dy)

(* The values `c_k.round()` can take after `c_k += inc` (lines 161-164),   *)
(* where the exact sum is num/den and inc = d/den.  The f64 sum is exact   *)
(* when inc is a dyadic rational, and round() then sends a half away from  *)
(* zero.  Otherwise the f64 sum carries an error far below 1/(2 den), which*)
(* matters only when the exact sum is a half: the f64 sum may then lie on  *)
(* either side of it, and both neighbours are possible.                    *)
RoundedSum(num, den, d) ==
    LET half  == (2 * num) % den = 0 /\ ((2 * num) \div den) % 2 # 0
        exact == IsPowerOfTwo(den \div Gcd(Abs(d), den))
    IN  IF half /\ ~exact
            THEN {num \div den, (num \div den) + 1}
            ELSE {Round(num, den)}

(* The loop of lines 157-165 run from s to e as they stand (no swap): all  *)
(* the sequences of (x_k.round(), y_k.round()) it can push.                *)
Traces(s, e) ==
    LET dx == e[1] - s[1]
        dy == e[2] - s[2]
        n  == Steps(dx, dy)
        RECURSIVE Extend(_, _)
        Extend(j, T) ==
            IF j > n THEN T
            ELSE Extend(j + 1,
                        {Append(t, <<rx, ry>>) :
                            t \in T,
                            rx \in RoundedSum(s[1] * n + j * dx, n, dx),
                            ry \in RoundedSum(s[2] * n + j * dy, n, dy)})
    IN  Extend(1, {<<>>})

(* lines 137-158: the slope test and swap, dx, dy, steps, and x_k, y_k set *)
(* to the start point.  x_k and y_k are kept as numerators over `steps`.   *)
make_line_enter ==
    /\ make_line_pc = "call"
    /\ LET swap == SwapNeeded(arg_start, arg_end)
           s == IF swap THEN arg_end ELSE arg_start
           e == IF swap THEN arg_start ELSE arg_end
           n == Steps(e[1] - s[1], e[2] - s[2])
       IN  /\ start' = s
           /\ end' = e
           /\ steps' = n
           /\ x_k' = s[1] * n
           /\ y_k' = s[2] * n
    /\ k' = 0
    /\ make_line_pc' = "loop"
    /\ UNCHANGED <<cast_mode, arg_start, arg_end, rounded, lines>>
    /\ UNCHANGED <<paletteVars, make_linesVars, linesVars, backgroundVars,
                   scanlineVars, mainVars>>

(* lines 160-165, one iteration: x_k += x_inc; y_k += y_inc; push *)
make_line_step ==
    /\ make_line_pc = "loop"
    /\ k < steps
    /\ LET dx == end[1] - start[1]
           dy == end[2] - start[2]
       IN  /\ x_k' = x_k + dx
           /\ y_k' = y_k + dy
           /\ \E rx \in RoundedSum(x_k', steps, dx) :
              \E ry \in RoundedSum(y_k', steps, dy) :
                /\ rounded' = Append(rounded, <<rx, ry>>)
                /\ lines' = Append(lines,
                                   <<AsU32(rx, cast_mode), AsU32(ry, cast_mode)>>)
    /\ k' = k + 1
    /\ UNCHANGED <<cast_mode, arg_start, arg_end, start, end, steps,
                   make_line_pc>>
    /\ UNCHANGED <<paletteVars, make_linesVars, linesVars, backgroundVars,
                   scanlineVars, mainVars>>

(* the loop `for _ in 0..steps` is over *)
make_line_return ==
    /\ make_line_pc = "loop"
    /\ k >= steps
    /\ make_line_pc' = "done"
    /\ UNCHANGED <<cast_mode, arg_start, arg_end, start, end, steps, x_k, y_k,
                   k, rounded, lines>>
    /\ UNCHANGED <<paletteVars, make_linesVars, linesVars, backgroundVars,
                   scanlineVars, mainVars>>

----------------------------------------------------------------------------
(* SpecRaster: make_line() called on an empty Vec with any two endpoints   *)
(* whose coordinates lie in -NegCoord..MaxCoord, in either build.          *)

NegCoord == 2
MaxCoord == 4

Coords == (0 - NegCoord)..MaxCoord

RasterInit ==
    /\ PaletteIdle /\ MakeLinesIdle /\ LinesIdle /\ BackgroundIdle
    /\ ScanlineIdle /\ MainIdle
    /\ cast_mode \in CastModes
    /\ arg_start \in Coords \X Coords
    /\ arg_end \in Coords \X Coords
    /\ start = arg_start
    /\ end = arg_end
    /\ steps = 0
    /\ x_k = 0
    /\ y_k = 0
    /\ k = 0
    /\ rounded = <<>>
    /\ lines = <<>>
    /\ make_line_pc = "call"

RasterNext ==
    \/ make_line_enter
    \/ make_line_step
    \/ make_line_return

SpecRaster == RasterInit /\ [][RasterNext]_vars

----------------------------------------------------------------------------
(* SpecPalette: palette() called with any hue and any intensity from       *)
(* -IntensityOver to IntensityUnit + IntensityOver units.                  *)

IntensityOver == 500

PaletteInit ==
    /\ MakeLineIdle /\ MakeLinesIdle /\ LinesIdle /\ BackgroundIdle
    /\ ScanlineIdle /\ MainIdle
    /\ primary \in Color
    /\ value \in (0 - IntensityOver)..(IntensityUnit + IntensityOver)
    /\ color = <<0, 0, 0>>
    /\ palette_pc = "call"

PaletteCall ==
    /\ palette_pc = "call"
    /\ color' = palette(primary, value)
    /\ palette_pc' = IF color' = PANIC THEN "panicked" ELSE "returned"
    /\ UNCHANGED <<primary, value>>
    /\ UNCHANGED <<make_lineVars, make_linesVars, linesVars, backgroundVars,
                   scanlineVars, mainVars>>

PaletteNext == PaletteCall

SpecPalette == PaletteInit /\ [][PaletteNext]_vars

----------------------------------------------------------------------------
(* The grid generator, main.rs lines 169-215: the make_line calls that     *)
(* make_lines(lines, v_offset) makes, in order, each as <<start, end>>.    *)

(* `((end_rel + 1.0) * WIDTH as f64 / 2.0) as i32` is WIDTH/2 + 8 i in     *)
(* exact arithmetic, but end_rel = 2.0 * i / 80.0 is not exact in f64, and *)
(* for these i the f64 product falls just below that integer, which        *)
(* `as i32` then truncates to one less.                                    *)
EndBelowInteger == {-37, -36, -32, -27}

(* lines 175-178.  start_rel = 30.0 * i / 80.0 is exact in f64.            *)
VerticalCall(i) ==
    LET start_x == Trunc((30 * i + N_VERT_LINES) * WIDTH, 2 * N_VERT_LINES)
        exact_x == Trunc((2 * i + N_VERT_LINES) * WIDTH, 2 * N_VERT_LINES)
        end_x   == IF i \in EndBelowInteger THEN exact_x - 1 ELSE exact_x
    IN  << <<start_x, HEIGHT>>, <<end_x, LINES_TOP>> >>

(* lines 174-181: `for i in -N_VERT_LINES/2..N_VERT_LINES/2+1` *)
VerticalCalls ==
    [j \in 1..(N_VERT_LINES + 1) |-> VerticalCall(j - 1 - N_VERT_LINES \div 2)]

(* a horizontal segment (0, y)-(WIDTH, y) *)
HorizontalCall(y) == << <<0, y>>, <<WIDTH, y>> >>

(* A next_scan_line that runs from LINES_MAX_DISTANCE at the top down to   *)
(* LINES_MIN_DISTANCE at the bottom.                                       *)
NextScanLineReversed(i) ==
    Trunc((LINES_MIN_DISTANCE - LINES_MAX_DISTANCE) * (i - LINES_TOP)
              + LINES_MAX_DISTANCE * (HEIGHT - LINES_TOP),
          HEIGHT - LINES_TOP)

(* `next_scan_line`, lines 203-204 *)
NextScanLine(i) ==
    Trunc((LINES_MAX_DISTANCE - LINES_MIN_DISTANCE) * (i - LINES_TOP)
              + LINES_MIN_DISTANCE * (HEIGHT - LINES_TOP),
          HEIGHT - LINES_TOP)

(* `(v_offset as f64 * (dist_from_top + MINIMUM_SPEED)) as i32`, line 207 *)
ScrollOffset(i, v) ==
    Trunc(v * (MINIMUM_SPEED_DEN * (i - LINES_TOP)
                   + MINIMUM_SPEED_NUM * (HEIGHT - LINES_TOP)),
          MINIMUM_SPEED_DEN * (HEIGHT - LINES_TOP))

(* make_lines calls make_line(lines, c[1], c[2]).  Under the frame builder *)
(* (lines_pc = "lines") the call is run; make_lines on its own only        *)
(* records it.                                                             *)
CallMakeLine(c) ==
    /\ calls' = Append(calls, c)
    /\ IF lines_pc = "lines"
          THEN /\ arg_start' = c[1]
               /\ arg_end' = c[2]
               /\ make_line_pc' = "call"
          ELSE UNCHANGED <<arg_start, arg_end, make_line_pc>>

(* the make_line call before has returned *)
MakeLineReturned == make_line_pc \in {"idle", "done"}

(* The frame offsets main passes, line 259.                                *)
FrameOffsets == 0..(LINES_MAX_DISTANCE - 1)

(* lines 174-181, one iteration of `for i in -N_VERT_LINES/2..N_VERT_LINES/2+1` *)
make_lines_vertical ==
    /\ make_lines_pc = "vertical"
    /\ MakeLineReturned
    /\ vert_i < N_VERT_LINES \div 2 + 1
    /\ CallMakeLine(VerticalCall(vert_i))
    /\ vert_i' = vert_i + 1
    /\ UNCHANGED <<v_offset, scan_i, steps_without_line, earlier, make_lines_pc>>
    /\ UNCHANGED <<cast_mode, start, end, steps, x_k, y_k, k, rounded, lines>>
    /\ UNCHANGED <<paletteVars, linesVars, backgroundVars, scanlineVars,
                   mainVars>>

(* lines 188 and 195: the loop is over; steps_without_line = 0; the fixed  *)
(* line at LINES_TOP                                                       *)
make_lines_top ==
    /\ make_lines_pc = "vertical"
    /\ MakeLineReturned
    /\ vert_i >= N_VERT_LINES \div 2 + 1
    /\ steps_without_line' = 0
    /\ CallMakeLine(HorizontalCall(LINES_TOP))
    /\ make_lines_pc' = "top"
    /\ UNCHANGED <<v_offset, vert_i, scan_i, earlier>>
    /\ UNCHANGED <<cast_mode, start, end, steps, x_k, y_k, k, rounded, lines>>
    /\ UNCHANGED <<paletteVars, linesVars, backgroundVars, scanlineVars,
                   mainVars>>

(* line 196: the line at LINES_TOP + (v_offset * MINIMUM_SPEED) as i32.    *)
(* This is the first place that reads v_offset; under the frame builder    *)
(* the offset of the frame is drawn here, so that the vertical lines,      *)
(* which are the same for every frame, are traced once.                    *)
make_lines_offset_top ==
    /\ make_lines_pc = "top"
    /\ MakeLineReturned
    /\ \E v \in (IF lines_pc = "lines" THEN FrameOffsets ELSE {v_offset}) :
        /\ v_offset' = v
        /\ CallMakeLine(HorizontalCall(
               LINES_TOP + Trunc(v * MINIMUM_SPEED_NUM, MINIMUM_SPEED_DEN)))
    /\ scan_i' = LINES_TOP
    /\ make_lines_pc' = "scan"
    /\ UNCHANGED <<vert_i, steps_without_line, earlier>>
    /\ UNCHANGED <<cast_mode, start, end, steps, x_k, y_k, k, rounded, lines>>
    /\ UNCHANGED <<paletteVars, linesVars, backgroundVars, scanlineVars,
                   mainVars>>

(* lines 197-212, one iteration of `for i in LINES_TOP..HEIGHT` *)
make_lines_scan ==
    /\ make_lines_pc = "scan"
    /\ MakeLineReturned
    /\ scan_i < HEIGHT
    /\ IF scan_i < LINES_TOP
          THEN /\ steps_without_line' = steps_without_line + 1
               /\ UNCHANGED <<calls, arg_start, arg_end, make_line_pc>>
          ELSE IF steps_without_line >= NextScanLine(scan_i)
          THEN /\ CallMakeLine(HorizontalCall(
                      scan_i + ScrollOffset(scan_i, v_offset)))
               /\ steps_without_line' = 0 + 1
          ELSE /\ steps_without_line' = steps_without_line + 1
               /\ UNCHANGED <<calls, arg_start, arg_end, make_line_pc>>
    /\ scan_i' = scan_i + 1
    /\ UNCHANGED <<v_offset, vert_i, earlier, make_lines_pc>>
    /\ UNCHANGED <<cast_mode, start, end, steps, x_k, y_k, k, rounded, lines>>
    /\ UNCHANGED <<paletteVars, linesVars, backgroundVars, scanlineVars,
                   mainVars>>

(* line 214: the scan loop is over and make_lines returns *)
make_lines_return ==
    /\ make_lines_pc = "scan"
    /\ MakeLineReturned
    /\ scan_i >= HEIGHT
    /\ make_lines_pc' = "done"
    /\ UNCHANGED <<v_offset, vert_i, scan_i, steps_without_line, calls, earlier>>
    /\ UNCHANGED <<paletteVars, make_lineVars, linesVars, backgroundVars,
                   scanlineVars, mainVars>>

(* the calls of make_lines before the scan loop's own *)
FixedCalls == N_VERT_LINES + 1 + 2

(* the y of the horizontal lines among the calls q, from call `from` on *)
HorizontalYs(q, from) == [j \in 1..(Len(q) - from + 1) |-> q[from + j - 1][1][2]]

(* the canvas rows on which the horizontal lines of the calls q lie *)
CanvasRows(q) ==
    {q[j][1][2] : j \in {n \in (N_VERT_LINES + 2)..Len(q) : q[n][1][2] < HEIGHT}}

(* make_lines is called again with the offset one animation period later,  *)
(* the rows of this call's horizontal lines being kept for comparison.     *)
next_period ==
    /\ make_lines_pc = "done"
    /\ lines_pc = "idle"
    /\ v_offset < LINES_MAX_DISTANCE
    /\ earlier' = CanvasRows(calls)
    /\ v_offset' = v_offset + LINES_MAX_DISTANCE
    /\ vert_i' = 0 - N_VERT_LINES \div 2
    /\ scan_i' = 0
    /\ steps_without_line' = 0
    /\ calls' = <<>>
    /\ make_lines_pc' = "vertical"
    /\ UNCHANGED <<paletteVars, make_lineVars, linesVars, backgroundVars,
                   scanlineVars, mainVars>>

----------------------------------------------------------------------------
(* SpecGrid: make_lines() called with each offset of main, and then with   *)
(* the offset one period later.  make_line is not run.                     *)

GridInit ==
    /\ PaletteIdle /\ MakeLineIdle /\ LinesIdle /\ BackgroundIdle
    /\ ScanlineIdle /\ MainIdle
    /\ v_offset \in FrameOffsets
    /\ vert_i = 0 - N_VERT_LINES \div 2
    /\ scan_i = 0
    /\ steps_without_line = 0
    /\ calls = <<>>
    /\ earlier = {}
    /\ make_lines_pc = "vertical"

GridNext ==
    \/ make_lines_vertical
    \/ make_lines_top
    \/ make_lines_offset_top
    \/ make_lines_scan
    \/ make_lines_return
    \/ next_period

SpecGrid == GridInit /\ [][GridNext]_vars

----------------------------------------------------------------------------
(* The frame builder's grid pass, main.rs lines 227-234.  build_img fills  *)
(* the Vec with make_lines and then walks it; what is done with a point    *)
(* depends on that point alone, so the model takes each point through      *)
(* lines 231-233 as make_line pushes it, and `lines` holds that one point. *)

(* `pixel.0 < WIDTH && pixel.1 < HEIGHT`, line 231 *)
OnCanvas(p) == U32Less(p[1], WIDTH) /\ U32Less(p[2], HEIGHT)

(* lines 160-165 for one point, and lines 231-233 for that point: the      *)
(* pixel written, or <<>> when the point is dropped                        *)
lines_point ==
    /\ lines_pc = "lines"
    /\ make_line_pc = "loop"
    /\ k < steps
    /\ LET dx == end[1] - start[1]
           dy == end[2] - start[2]
       IN  /\ x_k' = x_k + dx
           /\ y_k' = y_k + dy
           /\ \E rx \in RoundedSum(x_k', steps, dx) :
              \E ry \in RoundedSum(y_k', steps, dy) :
                LET p == <<AsU32(rx, cast_mode), AsU32(ry, cast_mode)>>
                IN  /\ rounded' = <<<<rx, ry>>>>
                    /\ lines' = <<p>>
                    /\ written' = IF OnCanvas(p) THEN <<p[1][2], p[2][2]>>
                                                ELSE <<>>
    /\ k' = k + 1
    /\ UNCHANGED <<cast_mode, arg_start, arg_end, start, end, steps,
                   make_line_pc>>
    /\ UNCHANGED lines_pc
    /\ UNCHANGED <<paletteVars, make_linesVars, backgroundVars, scanlineVars,
                   mainVars>>

(* line 235: make_lines has returned and the Vec is used up *)
lines_done ==
    /\ lines_pc = "lines"
    /\ make_lines_pc = "done"
    /\ lines_pc' = "done"
    /\ UNCHANGED written
    /\ UNCHANGED <<paletteVars, make_lineVars, make_linesVars, backgroundVars,
                   scanlineVars, mainVars>>

----------------------------------------------------------------------------
(* SpecFrame: the grid pass of build_img for every frame offset, in either *)
(* build.                                                                  *)

FrameInit ==
    /\ PaletteIdle /\ BackgroundIdle /\ ScanlineIdle /\ MainIdle
    /\ cast_mode \in CastModes
    /\ arg_start = <<0, 0>>
    /\ arg_end = <<0, 0>>
    /\ start = <<0, 0>>
    /\ end = <<0, 0>>
    /\ steps = 0
    /\ x_k = 0
    /\ y_k = 0
    /\ k = 0
    /\ rounded = <<>>
    /\ lines = <<>>
    /\ make_line_pc = "idle"
    /\ v_offset = 0
    /\ vert_i = 0 - N_VERT_LINES \div 2
    /\ scan_i = 0
    /\ steps_without_line = 0
    /\ calls = <<>>
    /\ earlier = {}
    /\ make_lines_pc = "vertical"
    /\ written = <<>>
    /\ lines_pc = "lines"

FrameNext ==
    \/ make_lines_vertical
    \/ make_lines_top
    \/ make_lines_offset_top
    \/ make_lines_scan
    \/ make_lines_return
    \/ make_line_enter
    \/ lines_point
    \/ make_line_return
    \/ lines_done

SpecFrame == FrameInit /\ [][FrameNext]_vars

----------------------------------------------------------------------------
(* The background shader, main.rs lines 97-133.                            *)

RECURSIVE SqrtSearch(_, _, _)
SqrtSearch(n, lo, hi) ==
    IF lo >= hi THEN lo
    ELSE LET mid == (lo + hi + 1) \div 2
         IN  IF mid * mid <= n THEN SqrtSearch(n, mid, hi)
                               ELSE SqrtSearch(n, lo, mid - 1)

(* floor(sqrt(n)), 0 <= n < 2^31 *)
Isqrt(n) == SqrtSearch(n, 0, 46340)

(* fn dist(x, y), lines 98-100, squared: the code passes (x, w/2) as `x`   *)
(* and (y, SUN_POSITION_Y) as `y`, and dist() takes the differences        *)
(* inside each pair.                                                       *)
DistSquared(x, y) ==
    (x[2] - x[1]) * (x[2] - x[1]) + (y[2] - y[1]) * (y[2] - y[1])

(* line 112: dx^2 / A^2 + dy^2 / B^2 < 1.0, with both sides multiplied by  *)
(* A^2 B^2 and A, B reduced by their common divisor g so that the products *)
(* fit TLC's integers.  On the canvas the f64 comparison agrees with the   *)
(* exact one, the pixels with equality included.                           *)
InReflection(px, py) ==
    LET g  == Gcd(SUN_REFLECTION_A, SUN_REFLECTION_B)
        a  == SUN_REFLECTION_A \div g
        b  == SUN_REFLECTION_B \div g
        dx == 2 * px - WIDTH
        dy == py - SUN_POSITION_Y
    IN  dx * dx * b * b + 4 * dy * dy * a * a < 4 * a * a * b * b * g * g

(* line 120: max_distance = sqrt(w*w + h*h) / 1.5; the root is exact.      *)
(* max_distance = MaxDistanceNum / MaxDistanceDen.                         *)
MaxDistanceNum == 2 * Isqrt(WIDTH * WIDTH + HEIGHT * HEIGHT)
MaxDistanceDen == 3

(* line 123: color = 0.65 - distance / max_distance, in intensity units,   *)
(* for distance = sqrt(n): ceil(U (65/100 - sqrt(n) den / num))            *)
(* = 65 U / 100 - floor(sqrt(a^2 n) / b), a/b being U den / num reduced.   *)
(* The one f64 result on the canvas that lies on the other side of a       *)
(* palette step from the exact value is at distance 280, where the exact   *)
(* 0.125 comes out as 0.1250000000000001: one unit more.                   *)
Gradient(n) ==
    LET g == Gcd(IntensityUnit * MaxDistanceDen, MaxDistanceNum)
        a == (IntensityUnit * MaxDistanceDen) \div g
        b == MaxDistanceNum \div g
        exact == (65 * IntensityUnit) \div 100 - (Isqrt(a * a * n) \div b)
    IN  IF n = 280 * 280 THEN exact + 1 ELSE exact

(* lines 119-130: the intensity of a sky pixel at squared distance n *)
SkyIntensity(n) ==
    IF n > 75 * 75
        THEN (IF Gradient(n) < 0 THEN 0 ELSE Gradient(n))
        ELSE IntensityUnit

(* A background() whose reflection band starts at y = LINES_TOP.           *)
background_from_top(px, py) ==
    IF py >= LINES_TOP
        THEN (IF InReflection(px, py)
                 THEN palette("Red", (2 * IntensityUnit) \div 10)
                 ELSE palette("Red", 0))
        ELSE palette("Red",
                     SkyIntensity(DistSquared(<<2 * px, WIDTH>>,
                                              <<2 * py, 2 * SUN_POSITION_Y>>)
                                      \div 4))

(* fn background(x: u32, y: u32) -> Rgb<u8>, lines 104-133.  The distances *)
(* from x to w/2 are taken doubled and the square divided by 4, which is   *)
(* exact for an even WIDTH.                                                *)
background(px, py) ==
    IF py > LINES_TOP
        THEN (IF InReflection(px, py)
                 THEN palette("Red", (2 * IntensityUnit) \div 10)
                 ELSE palette("Red", 0))
        ELSE palette("Red",
                     SkyIntensity(DistSquared(<<2 * px, WIDTH>>,
                                              <<2 * py, 2 * SUN_POSITION_Y>>)
                                      \div 4))

(* the pixel after (px, py) in enumerate_pixels_mut(): row by row *)
NextPixel(px, py, w) == IF px + 1 < w THEN <<px + 1, py>> ELSE <<0, py + 1>>

(* lines 222-224, one iteration: *pixel = background(x, y) *)
background_pixel ==
    /\ background_pc = "loop"
    /\ LET n == NextPixel(bg_x, bg_y, WIDTH)
       IN  /\ n[2] < HEIGHT
           /\ bg_x' = n[1]
           /\ bg_y' = n[2]
           /\ bg_pixel' = background(n[1], n[2])
    /\ UNCHANGED background_pc
    /\ UNCHANGED <<paletteVars, make_lineVars, make_linesVars, linesVars,
                   scanlineVars, mainVars>>

(* line 225: the loop is over *)
background_done ==
    /\ background_pc = "loop"
    /\ NextPixel(bg_x, bg_y, WIDTH)[2] >= HEIGHT
    /\ background_pc' = "done"
    /\ UNCHANGED <<bg_x, bg_y, bg_pixel>>
    /\ UNCHANGED <<paletteVars, make_lineVars, make_linesVars, linesVars,
                   scanlineVars, mainVars>>

----------------------------------------------------------------------------
(* SpecBackground: the background loop of build_img over the whole canvas. *)
(* (bg_x, bg_y) is the pixel last written and bg_pixel its colour; at the  *)
(* start none is written.                                                  *)

BackgroundInit ==
    /\ PaletteIdle /\ MakeLineIdle /\ MakeLinesIdle /\ LinesIdle
    /\ ScanlineIdle /\ MainIdle
    /\ bg_x = -1
    /\ bg_y = 0
    /\ bg_pixel = <<>>
    /\ background_pc = "loop"

BackgroundNext ==
    \/ background_pixel
    \/ background_done

SpecBackground == BackgroundInit /\ [][BackgroundNext]_vars

----------------------------------------------------------------------------
(* The scanline pass, main.rs lines 237-246.                               *)

(* line 238 *)
cyan_pixel == palette("Cyan", IntensityUnit)

(* A scanline body that darkens the grid colour as well.                   *)
ScanlineDarkenAll(y, pixel) ==
    IF y % 2 = 0 THEN [c \in 1..3 |-> pixel[c] \div 2] ELSE pixel

(* lines 240-244, the loop body for a pixel of row y *)
Scanline(y, pixel) ==
    IF y % 2 = 0 /\ pixel # cyan_pixel
        THEN [c \in 1..3 |-> pixel[c] \div 2]
        ELSE pixel

(* The colours a pixel is taken to hold when the pass reaches it: the 15   *)
(* of the palette, and every colour with channels among ChannelSamples     *)
(* (which has the grid colour's neighbours).                               *)
ChannelSamples == {0, 1, 190, 191, 200, 201, 255}

PixelSamples ==
    {PALETTE[h][r] : h \in Color, r \in 1..5}
        \cup (ChannelSamples \X ChannelSamples \X ChannelSamples)

(* The pass is followed over the first ScanColumns x ScanRows pixels.      *)
ScanColumns == 2
ScanRows == 4

(* lines 239-245, one iteration; the pixel holds any of the colours *)
scanline_pixel ==
    /\ scanline_pc = "loop"
    /\ LET n == NextPixel(scan_x, scan_y, ScanColumns)
       IN  /\ n[2] < ScanRows
           /\ scan_x' = n[1]
           /\ scan_y' = n[2]
           /\ \E c \in PixelSamples :
                /\ before' = c
                /\ after' = Scanline(n[2], c)
    /\ UNCHANGED scanline_pc
    /\ UNCHANGED <<paletteVars, make_lineVars, make_linesVars, linesVars,
                   backgroundVars, mainVars>>

(* line 246: the loop is over *)
scanline_done ==
    /\ scanline_pc = "loop"
    /\ NextPixel(scan_x, scan_y, ScanColumns)[2] >= ScanRows
    /\ scanline_pc' = "done"
    /\ UNCHANGED <<scan_x, scan_y, before, after>>
    /\ UNCHANGED <<paletteVars, make_lineVars, make_linesVars, linesVars,
                   backgroundVars, mainVars>>

----------------------------------------------------------------------------
(* SpecScanline: the scanline loop of build_img.  (scan_x, scan_y) is the  *)
(* pixel last visited, `before` and `after` its colour before and after.   *)

ScanlineInit ==
    /\ PaletteIdle /\ MakeLineIdle /\ MakeLinesIdle /\ LinesIdle
    /\ BackgroundIdle /\ MainIdle
    /\ scan_x = -1
    /\ scan_y = 0
    /\ before = <<>>
    /\ after = <<>>
    /\ scanline_pc = "loop"

ScanlineNext ==
    \/ scanline_pixel
    \/ scanline_done

SpecScanline == ScanlineInit /\ [][ScanlineNext]_vars

----------------------------------------------------------------------------
(* The batch driver, main.rs lines 254-272, and the threads it spawns,     *)
(* each running build_img(i), lines 218-252.                               *)

(* main spawns a thread per i in 0..LINES_MAX_DISTANCE; the model follows  *)
(* the first MaxThreads of them so that every interleaving is enumerated.  *)
MaxThreads == 4

Frames ==
    IF LINES_MAX_DISTANCE < MaxThreads THEN LINES_MAX_DISTANCE ELSE MaxThreads

(* the steps of build_img before the file is written: lines 222-225,       *)
(* 228-235 and 238-246                                                     *)
AfterPhase ==
    [ph \in {"background", "lines", "scanlines"} |->
        CASE ph = "background" -> "lines"
          [] ph = "lines"      -> "scanlines"
          [] ph = "scanlines"  -> "save"]

(* the process lives until main returns or panics *)
ProcessAlive == main_pc \in {"spawn", "join", "report"}

(* A join() that returns at once, whatever the thread is doing.            *)
JoinReturnsAtOnce(h) == TRUE

(* handle.join() returns once thread h has ended, line 266 *)
JoinReturns(h) == thread[h] \in {"finished", "panicked"}

(* lines 259-263, one iteration: spawn the thread of build_img(spawn_i)    *)
(* and push its handle; handles[h] is the i thread h was spawned with      *)
main_spawn ==
    /\ main_pc = "spawn"
    /\ spawn_i < Frames
    /\ handles' = Append(handles, spawn_i)
    /\ thread' = Append(thread, "background")
    /\ spawn_i' = spawn_i + 1
    /\ main_pc' = IF spawn_i + 1 < Frames THEN "spawn" ELSE "join"
    /\ UNCHANGED <<join_i, files, reported>>
    /\ UNCHANGED <<paletteVars, make_lineVars, make_linesVars, linesVars,
                   backgroundVars, scanlineVars>>

(* lines 265-267, one iteration: join the next handle; the thread ended    *)
(* normally, so unwrap() returns                                           *)
main_join ==
    /\ main_pc = "join"
    /\ join_i < Len(handles)
    /\ JoinReturns(join_i + 1)
    /\ thread[join_i + 1] # "panicked"
    /\ join_i' = join_i + 1
    /\ main_pc' = IF join_i + 1 < Len(handles) THEN "join" ELSE "report"
    /\ UNCHANGED <<spawn_i, handles, thread, files, reported>>
    /\ UNCHANGED <<paletteVars, make_lineVars, make_linesVars, linesVars,
                   backgroundVars, scanlineVars>>

(* line 266: the joined thread panicked, so join() is Err and unwrap()     *)
(* panics in main                                                          *)
main_join_panic ==
    /\ main_pc = "join"
    /\ join_i < Len(handles)
    /\ JoinReturns(join_i + 1)
    /\ thread[join_i + 1] = "panicked"
    /\ main_pc' = "panicked"
    /\ UNCHANGED <<spawn_i, handles, join_i, thread, files, reported>>
    /\ UNCHANGED <<paletteVars, make_lineVars, make_linesVars, linesVars,
                   backgroundVars, scanlineVars>>

(* lines 269-271: print the elapsed time *)
main_report ==
    /\ main_pc = "report"
    /\ reported' = TRUE
    /\ main_pc' = "done"
    /\ UNCHANGED <<spawn_i, handles, join_i, thread, files>>
    /\ UNCHANGED <<paletteVars, make_lineVars, make_linesVars, linesVars,
                   backgroundVars, scanlineVars>>

(* thread h finishes one of the three passes over its own ImageBuffer *)
build_img_pass ==
    \E h \in 1..Len(thread) :
    /\ ProcessAlive
    /\ thread[h] \in DOMAIN AfterPhase
    /\ thread' = [thread EXCEPT ![h] = AfterPhase[thread[h]]]
    /\ UNCHANGED <<main_pc, spawn_i, handles, join_i, files, reported>>
    /\ UNCHANGED <<paletteVars, make_lineVars, make_linesVars, linesVars,
                   backgroundVars, scanlineVars>>

(* lines 249-251: thread h writes out/out{i}.png for its own i; a file is  *)
(* kept as <<i, h>>, the frame and the thread that wrote it                *)
build_img_save ==
    \E h \in 1..Len(thread) :
    /\ ProcessAlive
    /\ thread[h] = "save"
    /\ files' = files \cup {<<handles[h], h>>}
    /\ thread' = [thread EXCEPT ![h] = "finished"]
    /\ UNCHANGED <<main_pc, spawn_i, handles, join_i, reported>>
    /\ UNCHANGED <<paletteVars, make_lineVars, make_linesVars, linesVars,
                   backgroundVars, scanlineVars>>

(* lines 249-250: File::create or save fails and unwrap() panics *)
build_img_panic ==
    \E h \in 1..Len(thread) :
    /\ ProcessAlive
    /\ thread[h] = "save"
    /\ thread' = [thread EXCEPT ![h] = "panicked"]
    /\ UNCHANGED <<main_pc, spawn_i, handles, join_i, files, reported>>
    /\ UNCHANGED <<paletteVars, make_lineVars, make_linesVars, linesVars,
                   backgroundVars, scanlineVars>>

----------------------------------------------------------------------------
(* SpecMain: main from its first statement, with every interleaving of the *)
(* threads.                                                                *)

MainInit ==
    /\ PaletteIdle /\ MakeLineIdle /\ MakeLinesIdle /\ LinesIdle
    /\ BackgroundIdle /\ ScanlineIdle
    /\ main_pc = "spawn"
    /\ spawn_i = 0
    /\ handles = <<>>
    /\ join_i = 0
    /\ thread = <<>>
    /\ files = {}
    /\ reported = FALSE

MainNext ==
    \/ main_spawn
    \/ main_join
    \/ main_join_panic
    \/ main_report
    \/ build_img_pass
    \/ build_img_save
    \/ build_img_panic

SpecMain == MainInit /\ [][MainNext]_vars

----------------------------------------------------------------------------
(* Claims about the rasterizer, under SpecRaster.                          *)

Range(q) == {q[j] : j \in 1..Len(q)}

(* The point (x, y) as a pair of u32, for x, y >= 0.                       *)
Point(x, y) == <<U32(x), U32(y)>>

(* The integer a u32 stands for when read modulo 2^32 (two's complement).  *)
Signed(u) == IF u[1] >= Half \div 2 THEN (u[1] - Half) * Half + u[2]
                                    ELSE u[1] * Half + u[2]

(* Two emitted points at most 1 apart in x and in y.                       *)
PointNear(p, q) ==
    /\ Abs(Signed(p[1]) - Signed(q[1])) <= 1
    /\ Abs(Signed(p[2]) - Signed(q[2])) <= 1

(* The emitted point p is the integer point q.                             *)
PointIs(p, q) == Signed(p[1]) = q[1] /\ Signed(p[2]) = q[2]

InQuadrant(p) == p[1] >= 0 /\ p[2] >= 0

(* C2: for a segment with distinct endpoints the rasterizer emits exactly  *)
(* max(|dx|,|dy|) points; the first is one step past the (possibly         *)
(* swapped) start point, which is not itself emitted; consecutive points   *)
(* differ by at most 1 in x and in y; the last is the (possibly swapped)   *)
(* end point; (0,0)-(4,0), (0,0)-(0,4) and (0,0)-(4,4) give the 4 points   *)
(* listed.  An emitted u32 is read modulo 2^32, so that a negative         *)
(* coordinate that wrapped still counts as that coordinate.                *)
C2_GapFreePath ==
    (make_line_pc = "done" /\ arg_start # arg_end) =>
        /\ Len(lines) = Max(Abs(arg_end[1] - arg_start[1]),
                            Abs(arg_end[2] - arg_start[2]))
        /\ \A j \in 1..Len(lines) : ~PointIs(lines[j], start)
        /\ Abs(Signed(lines[1][1]) - start[1]) <= 1
        /\ Abs(Signed(lines[1][2]) - start[2]) <= 1
        /\ \A j \in 1..(Len(lines) - 1) : PointNear(lines[j], lines[j + 1])
        /\ PointIs(lines[Len(lines)], end)
        /\ (arg_start = <<0, 0>> /\ arg_end = <<4, 0>>) =>
              lines = <<Point(1, 0), Point(2, 0), Point(3, 0), Point(4, 0)>>
        /\ (arg_start = <<0, 0>> /\ arg_end = <<0, 4>>) =>
              lines = <<Point(0, 1), Point(0, 2), Point(0, 3), Point(0, 4)>>
        /\ (arg_start = <<0, 0>> /\ arg_end = <<4, 4>>) =>
              lines = <<Point(1, 1), Point(2, 2), Point(3, 3), Point(4, 4)>>

(* C2 does hold of every segment whose endpoints have no negative          *)
(* coordinate, and of every segment in a build whose cast wraps.           *)
GapFreePathWithoutSaturation ==
    (InQuadrant(arg_start) /\ InQuadrant(arg_end)) \/ cast_mode = "wrap"
        => C2_GapFreePath

(* C3: a zero-length segment makes the rasterizer emit exactly one point,  *)
(* that endpoint, without failing.                                         *)
C3_ZeroLengthSinglePoint ==
    (make_line_pc = "done" /\ arg_start = arg_end) =>
        /\ Len(lines) = 1
        /\ rounded = <<arg_end>>

(* What the rasterizer does with a zero-length segment: it returns having  *)
(* pushed nothing.                                                         *)
ZeroLengthEmitsNothing ==
    /\ (make_line_pc = "done" /\ arg_start = arg_end) => lines = <<>>
    /\ (make_line_pc = "loop" /\ arg_start = arg_end) => ENABLED make_line_return

(* The segments whose endpoints the rasterizer swaps: rising to the right  *)
(* on screen (dy < 0 < dx).                                                *)
Swapped == arg_start[1] < arg_end[1] /\ arg_end[2] < arg_start[2]

----------------------------------------------------------------------------
(* Claims about the grid generator, under SpecGrid.                        *)

(* the y of the lines the scan loop has emitted, in the order emitted *)
ScanYs == HorizontalYs(calls, FixedCalls + 1)

Spacing(j) == ScanYs[j + 1] - ScanYs[j]

(* C7 as claimed: for every offset of main, the spacings between           *)
(* consecutive lines emitted by the scan loop never decrease from horizon  *)
(* to bottom and all lie within [LINES_MIN_DISTANCE, LINES_MAX_DISTANCE].  *)
C7_SpacingWithinMinMax ==
    (make_lines_pc = "done" /\ v_offset \in FrameOffsets) =>
        /\ \A j \in 1..(Len(ScanYs) - 2) : Spacing(j) <= Spacing(j + 1)
        /\ \A j \in 1..(Len(ScanYs) - 1) :
              /\ Spacing(j) >= LINES_MIN_DISTANCE
              /\ Spacing(j) <= LINES_MAX_DISTANCE

(* C7 as amended: the spacings never decrease and are all at least         *)
(* LINES_MIN_DISTANCE; a spacing is at most LINES_MAX_DISTANCE when its    *)
(* lower line is on the canvas (y < HEIGHT).  The line the scroll offset   *)
(* pushes below the canvas can be further away.                            *)
C7_SpacingOnCanvasWithinMinMax ==
    (make_lines_pc = "done" /\ v_offset \in FrameOffsets) =>
        /\ \A j \in 1..(Len(ScanYs) - 2) : Spacing(j) <= Spacing(j + 1)
        /\ \A j \in 1..(Len(ScanYs) - 1) :
              /\ Spacing(j) >= LINES_MIN_DISTANCE
              /\ ScanYs[j + 1] < HEIGHT => Spacing(j) <= LINES_MAX_DISTANCE

C7_Witness ==
    /\ make_lines_pc = "done"
    /\ v_offset = LINES_MAX_DISTANCE - 1
    /\ Len(ScanYs) >= 3
    /\ \E j \in 1..(Len(ScanYs) - 1) :
          ScanYs[j + 1] >= HEIGHT /\ Spacing(j) > LINES_MAX_DISTANCE
    /\ \E j \in 1..(Len(ScanYs) - 1) :
          ScanYs[j + 1] < HEIGHT /\ Spacing(j) = LINES_MAX_DISTANCE

(* C10: the rows of the horizontal lines are periodic in the offset with   *)
(* period LINES_MAX_DISTANCE: the canvas rows with a horizontal line for   *)
(* offset v + LINES_MAX_DISTANCE are those for offset v.                   *)
C10_RowsPeriodic ==
    (make_lines_pc = "done" /\ v_offset >= LINES_MAX_DISTANCE) =>
        CanvasRows(calls) = earlier

----------------------------------------------------------------------------
(* Claims about the frame builder's grid pass, under SpecFrame.            *)

(* the point (x_k.round(), y_k.round()) lies on the canvas *)
RoundedOnCanvas(p) ==
    /\ 0 <= p[1] /\ p[1] < WIDTH
    /\ 0 <= p[2] /\ p[2] < HEIGHT

(* C1: a point of the rasterizer that lies outside the canvas, a negative  *)
(* x or y included, makes the frame builder write no pixel.                *)
C1_OffCanvasPointsDropped ==
    (lines_pc = "lines" /\ rounded # <<>> /\ ~RoundedOnCanvas(rounded[1]))
        => written = <<>>

(* C1 does hold where the cast wraps, and of every point that is off the   *)
(* canvas to the right or below.                                           *)
OffCanvasPointsDroppedWithoutSaturation ==
    (lines_pc = "lines" /\ rounded # <<>> /\ ~RoundedOnCanvas(rounded[1])
        /\ (cast_mode = "wrap" \/ (rounded[1][1] >= 0 /\ rounded[1][2] >= 0)))
        => written = <<>>

----------------------------------------------------------------------------
(* Claims about the colour lookup, under SpecPalette.                      *)

(* the index r with r = round(x) for x = 4 (1 - value), halves going up:   *)
(* r - 1/2 <= x < r + 1/2, in intensity units                              *)
IsRounded(r, v) ==
    /\ (2 * r - 1) * IntensityUnit <= 8 * (IntensityUnit - v)
    /\ 8 * (IntensityUnit - v) < (2 * r + 1) * IntensityUnit

(* C4: for every hue and every intensity in [0, 1], palette returns        *)
(* table[hue][round((1 - intensity) * 4)], the base colour at 1.0 and      *)
(* black at 0.0; for every intensity outside [0, 1] it panics and returns  *)
(* no colour.                                                              *)
C4_PaletteDefinedOnUnitInterval ==
    (palette_pc # "call") =>
        /\ (0 <= value /\ value <= IntensityUnit) =>
              /\ palette_pc = "returned"
              /\ \E r \in 0..4 : IsRounded(r, value)
                                   /\ color = PALETTE[primary][r + 1]
              /\ value = IntensityUnit =>
                    color = (CASE primary = "Blue" -> <<47, 24, 200>>
                               [] primary = "Cyan" -> <<0, 200, 190>>
                               [] primary = "Red"  -> <<200, 0, 123>>)
              /\ value = 0 => color = <<0, 0, 0>>
        /\ (value < 0 \/ value > IntensityUnit) =>
              /\ palette_pc = "panicked"
              /\ color = PANIC

(* palette(Red, -0.1) has panicked *)
C4_Witness ==
    /\ palette_pc = "panicked"
    /\ primary = "Red"
    /\ value = 0 - (IntensityUnit \div 10)

----------------------------------------------------------------------------
(* Claims about the background shader, under SpecBackground.               *)

(* the squared distance of the pixel last written from (WIDTH/2, 220) *)
SunDistanceSquared ==
    (bg_x - 320) * (bg_x - 320) + (bg_y - 220) * (bg_y - 220)

(* C8: a pixel with y > LINES_TOP is palette(Red, 0.2) inside the ellipse  *)
(* ((x - W/2)/100)^2 + ((y - 220)/350)^2 < 1 and black outside it, never   *)
(* the gradient; a pixel with y <= LINES_TOP, y = LINES_TOP included, is   *)
(* shaded by the sky rule: the full Red within distance 75 of the sun's    *)
(* centre, 75 and the centre included, and beyond it the step of the       *)
(* gradient 0.65 - d / max_distance, floored at 0.                         *)
C8_BackgroundBands ==
    (bg_pixel # <<>>) =>
        /\ (bg_y > 240) =>
              bg_pixel = (IF 49 * (bg_x - 320) * (bg_x - 320)
                              + 4 * (bg_y - 220) * (bg_y - 220) < 490000
                             THEN <<50, 0, 30>>
                             ELSE <<0, 0, 0>>)
        /\ (bg_y <= 240 /\ SunDistanceSquared <= 5625) =>
              bg_pixel = <<200, 0, 123>>
        /\ (bg_y <= 240 /\ SunDistanceSquared > 5625) =>
              bg_pixel = (IF 9 * SunDistanceSquared < 193600
                             THEN <<100, 0, 61>>
                          ELSE IF SunDistanceSquared <= 78400
                             THEN <<50, 0, 30>>
                          ELSE <<0, 0, 0>>)

(* the pixel of row LINES_TOP below the sun's centre, 20 away from it, has *)
(* been shaded by the sky rule, with the full Red, and not as reflection   *)
C8_Witness ==
    /\ bg_y = LINES_TOP
    /\ bg_x = 320
    /\ SunDistanceSquared = 400
    /\ bg_pixel = <<200, 0, 123>>
    /\ bg_pixel # palette("Red", (2 * IntensityUnit) \div 10)

----------------------------------------------------------------------------
(* Claims about the scanline pass, under SpecScanline.                     *)

(* C6: on an even row a pixel that is not palette(Cyan, 1.0) has every     *)
(* channel replaced by floor(channel / 2) and a pixel that is              *)
(* palette(Cyan, 1.0) is unchanged; on an odd row every pixel is           *)
(* unchanged.                                                              *)
C6_ScanlinePass ==
    (before # <<>>) =>
        /\ (scan_y % 2 = 0 /\ before # <<0, 200, 190>>) =>
              /\ Len(after) = 3
              /\ \A c \in 1..3 : /\ 2 * after[c] <= before[c]
                                 /\ before[c] <= 2 * after[c] + 1
        /\ (scan_y % 2 = 0 /\ before = <<0, 200, 190>>) => after = before
        /\ (scan_y % 2 = 1) => after = before

(* the sun's colour on an even row has been halved, 123 to 61 *)
C6_Witness ==
    /\ scan_y = 2
    /\ before = <<200, 0, 123>>
    /\ after = <<100, 0, 61>>

----------------------------------------------------------------------------
(* Claims about the batch driver, under SpecMain.                          *)

(* C5: main starts exactly one thread per frame index, each writing only   *)
(* its own frame, and the elapsed time is reported only after every one of *)
(* them has completed, whatever the order in which they complete.          *)
C5_ReportAfterAllWorkers ==
    /\ \A h \in 1..Len(handles) : handles[h] = h - 1
    /\ Len(handles) <= Frames
    /\ main_pc # "spawn" => Len(handles) = Frames
    /\ \A f \in files : f[1] = f[2] - 1 /\ thread[f[2]] = "finished"
    /\ reported =>
          /\ Len(thread) = Frames
          /\ \A h \in 1..Frames : thread[h] = "finished"
          /\ {f[1] : f \in files} = 0..(Frames - 1)

(* the report has been made, every thread having been spawned and joined *)
C5_Witness ==
    /\ reported
    /\ join_i = Frames
    /\ Cardinality(files) = Frames

====
